---- MODULE Spec2Model ----
(***************************************************************************)
(* Model of the campaign execution engine of bulk-email-sender:            *)
(*   - BatchService   (src/src/services/batchService.ts)                   *)
(*   - SchedulerService (src/unnamed/part_003, schedulerService.ts)        *)
(*   - EmailService.sendBulkEmails (src/src/services/emailService.ts)      *)
(*                                                                         *)
(* The process is a single-threaded event loop.  An action of the model is *)
(* one run-to-completion step: the code executed from one resumption       *)
(* (HTTP call, timer callback, resolution of an awaited transport call or  *)
(* delay) up to the next real suspension point.  Awaits of promises that   *)
(* are already resolved (async functions that return without awaiting I/O, *)
(* the dynamic import of an already loaded module) continue in the same    *)
(* step, since no timer or request handler can run in between.             *)
(***************************************************************************)
EXTENDS Integers, Sequences, FiniteSets, Bags

(* ---- bounds ---- *)
MaxJobs == 2          \* accepted startBatchJob calls per behaviour
MaxContacts == 3      \* contacts of all batch jobs of one behaviour together
MaxBatchSize == 2     \* batchConfig.batchSize ranges over 1..MaxBatchSize

\* per-contact transport outcomes offered to a job: the set of (1-based)
\* contact positions whose sendMail rejects.  The last set is a transport
\* that cannot deliver at all (wrong host or credentials in emailJob.config):
\* every call of sendSingleEmail rejects.
FailSets == {{}, {2}, 1..MaxContacts}

MaxSched == 2         \* ScheduledJob records inserted per behaviour
MaxTime == 2          \* the clock runs over 0..MaxTime
MaxSchedContacts == 2 \* contacts of one scheduled batch job
MaxSchedTotal == 3    \* contacts of all ScheduledJob records of one behaviour together
MaxBulkContacts == 2  \* contacts of one direct (non-batch) send
MaxBulk == 2          \* immediate direct sends per behaviour
MaxRunContacts == 45  \* contacts of the job of an uninterrupted single run
MaxRunBatchSize == 20 \* its batchSize ranges over 1..MaxRunBatchSize

NoTimer == <<0, 0>>
NoTransport == <<"none", 0>>

VARIABLES
  jobs,           \* every BatchJob object created so far, by creation order
  currentJob,     \* BatchService.currentJob: index into jobs, 0 = null
  isRunning,      \* BatchService.isRunning
  timeoutId,      \* BatchService.timeoutId: handle of the last inter-batch timer, NoTimer = null
  totalJobs,      \* BatchService.totalJobs
  completedJobs,  \* BatchService.completedJobs
  timers,         \* pending inter-batch setTimeout callbacks (handles)
  evictTimers,    \* number of pending 30 s "currentJob = null" callbacks
  loops,          \* suspended activations of processNextBatch
  notifications,  \* bag of the calls of notificationService.sendJobCompletionNotification
  transporter,    \* EmailService.transporter: the request whose config it was built from, NoTransport = null
  lastStart,      \* outcome of the latest startBatchJob call
  sched,          \* table scheduled_jobs, by insertion order (row i has id i)
  execs,          \* per row: how often executeScheduledJob dispatched its send
  monitors,       \* per row: pending 30 s checkCompletion timers
  sweeps,         \* suspended activations of checkDueJobs and of immediate direct sends
  bulkCount,      \* immediate direct sends started so far
  now,            \* the clock
  reply,          \* answer to the latest DELETE /scheduled-jobs/:id or refused schedule request
  notified        \* outcome of the latest sendJobCompletionNotification call that returned (kept in SpecNotify only)

engVars == <<jobs, currentJob, isRunning, timeoutId, totalJobs, completedJobs,
             timers, evictTimers, loops, notifications, transporter>>
schedVars == <<sched, execs, monitors, sweeps, bulkCount>>
vars == <<engVars, lastStart, schedVars, now, reply, notified>>

(* ---- the engine state as one value, so that handlers compose ---- *)
Eng ==
  [jobs |-> jobs, currentJob |-> currentJob, isRunning |-> isRunning,
   timeoutId |-> timeoutId, totalJobs |-> totalJobs,
   completedJobs |-> completedJobs, timers |-> timers,
   evictTimers |-> evictTimers, loops |-> loops,
   notifications |-> notifications, transporter |-> transporter,
   sched |-> sched, execs |-> execs, monitors |-> monitors,
   sweeps |-> sweeps, bulkCount |-> bulkCount]

SetEng(e) ==
  /\ jobs' = e.jobs
  /\ currentJob' = e.currentJob
  /\ isRunning' = e.isRunning
  /\ timeoutId' = e.timeoutId
  /\ totalJobs' = e.totalJobs
  /\ completedJobs' = e.completedJobs
  /\ timers' = e.timers
  /\ evictTimers' = e.evictTimers
  /\ loops' = e.loops
  /\ notifications' = e.notifications
  /\ transporter' = e.transporter
  /\ sched' = e.sched
  /\ execs' = e.execs
  /\ monitors' = e.monitors
  /\ sweeps' = e.sweeps
  /\ bulkCount' = e.bulkCount

\* Math.floor in place of Math.ceil
CeilDiv_Floor(n, d) == n \div d

\* Math.ceil(contacts.length / batchSize)
CeilDiv(n, d) == (n + d - 1) \div d

Min(a, b) == IF a <= b THEN a ELSE b

\* clearTimeout(this.timeoutId); this.timeoutId = null  (guarded by "if (this.timeoutId)")
clearTimer(e) ==
  IF e.timeoutId # NoTimer
    THEN [e EXCEPT !.timers = e.timers \ {e.timeoutId}, !.timeoutId = NoTimer]
    ELSE e

\* 1-based position in the job's contact list of entry i (0-based) of batch k (1-based)
ContactOf(job, k, i) == (k - 1) * job.batchSize + i + 1

\* the SendRequest a batch job was made from: the ScheduledJob record it was
\* dispatched for, or the POST /send request that started it at once
RequestOf(origin, j) ==
  IF origin = 0 THEN <<"batch", j>> ELSE <<"sched", origin>>

\* emailService.createTransport(config), config being that of request r
createTransport(e, r) == [e EXCEPT !.transporter = r]

\* the loop body of processBatch up to "await emailService.sendSingleEmail":
\* activation a starts the send for its contact i; sendSingleEmail hands the
\* mail to this.transporter, whatever request configured it last (misrouted
\* records that it was another one than the job's)
startSend(e, a) ==
  LET c == ContactOf(e.jobs[a.job], a.batch, a.i)
  IN [e EXCEPT !.jobs[a.job].attempts[c] = @ + 1,
               !.jobs[a.job].misrouted =
                  @ \/ e.transporter # RequestOf(e.jobs[a.job].origin, a.job),
               !.loops = (e.loops \ {a}) \cup {[a EXCEPT !.pc = "send"]}]

\* tail of completeBatchJob after the notification: clear the timer handle,
\* arm the 30 s eviction timer
finishComplete(e) ==
  [clearTimer(e) EXCEPT !.evictTimers = @ + 1]

\* a call of notificationService.sendJobCompletionNotification with the stats in n
sendJobCompletionNotification(e, n) ==
  [e EXCEPT !.notifications = @ (+) SetToBag({n})]

\* sendBatchCompletionNotification up to "await sendJobCompletionNotification"
sendBatchCompletionNotification(e) ==
  LET j == e.jobs[e.currentJob]
  IN sendJobCompletionNotification(e,
        [via |-> "batch", job |-> <<"batch", e.currentJob>>,
         sent |-> j.emailsSent, failed |-> j.emailsFailed,
         total |-> j.totalContacts])

\* completeBatchJob, called by activation a (already removed from e.loops)
completeBatchJob(e, a) ==
  IF e.currentJob = 0 THEN e
  ELSE
    LET e1 == [e EXCEPT !.jobs[e.currentJob].status = "Completed",
                        !.jobs[e.currentJob].nextBatchTime = FALSE,
                        !.isRunning = FALSE,
                        !.completedJobs = @ + 1]
    IN IF e1.jobs[e1.currentJob].notify
         THEN [sendBatchCompletionNotification(e1) EXCEPT
                 !.loops = @ \cup {[a EXCEPT !.pc = "notify"]}]
         ELSE finishComplete(e1)

\* scheduleNextBatch(job) when "new Date(Date.now() + delayMs)" is a valid date
scheduleNextBatch(e, a) ==
  [e EXCEPT !.jobs[a.job].nextBatchTime = TRUE,
            !.timeoutId = <<a.job, a.batch>>,
            !.timers = @ \cup {<<a.job, a.batch>>}]

\* the catch block of processNextBatch
batchFailed(e, a) ==
  [e EXCEPT !.jobs[a.job].status = "Failed",
            !.isRunning = FALSE,
            !.completedJobs = @ + 1]

\* processNextBatch after "await this.processBatch(...)" returned
\* (a already removed from e.loops); nextBatchTime.toISOString() throws a
\* RangeError before any assignment when Date.now() + batchDelay * 60 * 1000 is
\* beyond the range of Date
afterBatch(e, a) ==
  LET job == e.jobs[a.job]
  IN IF job.currentBatch < job.totalBatches /\ e.isRunning
       THEN IF job.delayInRange
              THEN scheduleNextBatch(e, a)
              ELSE batchFailed(e, a)
       ELSE completeBatchJob(e, a)

\* processNextBatch without "job.currentBatch++"
processNextBatch_NoAdvance(e) ==
  IF e.currentJob = 0 \/ ~e.isRunning THEN e
  ELSE
    LET cj == e.currentJob
        job == e.jobs[cj]
    IN IF job.currentBatch >= job.totalBatches
         THEN completeBatchJob(e, [job |-> cj, batch |-> job.totalBatches + 1,
                                   i |-> 0, len |-> 0, pc |-> "enter"])
         ELSE
           LET startIndex == job.currentBatch * job.batchSize
               endIndex == Min(startIndex + job.batchSize, job.totalContacts)
               a == [job |-> cj, batch |-> job.currentBatch + 1, i |-> 0,
                     len |-> endIndex - startIndex, pc |-> "enter"]
           IN startSend(e, a)

\* processNextBatch from its entry up to the first suspension
processNextBatch(e) ==
  IF e.currentJob = 0 \/ ~e.isRunning THEN e
  ELSE
    LET cj == e.currentJob
        job == e.jobs[cj]
    IN IF job.currentBatch >= job.totalBatches
         THEN completeBatchJob(e, [job |-> cj, batch |-> job.totalBatches + 1,
                                   i |-> 0, len |-> 0, pc |-> "enter"])
         ELSE
           LET startIndex == job.currentBatch * job.batchSize
               endIndex == Min(startIndex + job.batchSize, job.totalContacts)
               a == [job |-> cj, batch |-> job.currentBatch + 1, i |-> 0,
                     len |-> endIndex - startIndex, pc |-> "enter"]
               e1 == [e EXCEPT !.jobs[cj].currentBatch = @ + 1]
           IN startSend(e1, a)

\* processBatch counting a delivered email under both counters
sendDone_DoubleCount(e, a) ==
  LET job == e.jobs[a.job]
      c == ContactOf(job, a.batch, a.i)
      e1 == IF c \in job.fails
              THEN [e EXCEPT !.jobs[a.job].failedLogs = @ + 1,
                             !.jobs[a.job].emailsFailed = @ + 1]
              ELSE [e EXCEPT !.jobs[a.job].sentLogs = @ + 1,
                             !.jobs[a.job].emailsSent = @ + 1,
                             !.jobs[a.job].emailsFailed = @ + 1]
  IN IF a.i < a.len - 1 /\ e1.isRunning
       THEN [e1 EXCEPT !.loops = (@ \ {a}) \cup {[a EXCEPT !.pc = "delay"]}]
       ELSE afterBatch([e1 EXCEPT !.loops = @ \ {a}], a)

\* processBatch without its inner try/catch: a rejected send propagates to the
\* catch of processNextBatch
sendDone_FailureAborts(e, a) ==
  LET job == e.jobs[a.job]
      c == ContactOf(job, a.batch, a.i)
      e0 == [e EXCEPT !.loops = @ \ {a}]
  IN IF c \in job.fails
       THEN [e0 EXCEPT !.jobs[a.job].status = "Failed",
                       !.isRunning = FALSE,
                       !.completedJobs = @ + 1]
       ELSE LET e1 == [e0 EXCEPT !.jobs[a.job].sentLogs = @ + 1,
                                 !.jobs[a.job].emailsSent = @ + 1]
            IN IF a.i < a.len - 1 /\ e1.isRunning
                 THEN [e1 EXCEPT !.loops = @ \cup {[a EXCEPT !.pc = "delay"]}]
                 ELSE afterBatch(e1, a)

\* resolution (or rejection) of "await emailService.sendSingleEmail" in
\* processBatch; sentLogs / failedLogs count the entries "batch_<job.id>_..." that
\* logService.addLog received with status Sent / Failed
sendDone(e, a) ==
  LET job == e.jobs[a.job]
      c == ContactOf(job, a.batch, a.i)
      e1 == IF c \in job.fails
              THEN [e EXCEPT !.jobs[a.job].failedLogs = @ + 1,
                             !.jobs[a.job].emailsFailed = @ + 1]
              ELSE [e EXCEPT !.jobs[a.job].sentLogs = @ + 1,
                             !.jobs[a.job].emailsSent = @ + 1]
  IN IF a.i < a.len - 1 /\ e1.isRunning
       THEN [e1 EXCEPT !.loops = (@ \ {a}) \cup {[a EXCEPT !.pc = "delay"]}]
       ELSE afterBatch([e1 EXCEPT !.loops = @ \ {a}], a)

\* the for loop of processBatch without its "i++"
delayDone_SameIndex(e, a) ==
  LET e1 == [e EXCEPT !.loops = @ \ {a}]
  IN IF ~e.isRunning
       THEN afterBatch(e1, a)
       ELSE startSend(e1, a)

\* the inter-email delay of processBatch elapsed: next iteration of the for loop
delayDone(e, a) ==
  LET a1 == [a EXCEPT !.i = @ + 1]
      e1 == [e EXCEPT !.loops = @ \ {a}]
  IN IF ~e.isRunning
       THEN afterBatch(e1, a1)
       ELSE startSend(e1, a1)

\* what a call of notificationService.sendJobCompletionNotification can do:
\* resolve to true, resolve to false, or reject
NotifyOutcomes == {"sent", "false", "throws"}

\* sendBatchCompletionNotification without its try/catch: a rejection leaves
\* completeBatchJob and reaches the catch of processNextBatch
notifyDone_Uncaught(e, a, outcome) ==
  LET e1 == [e EXCEPT !.loops = @ \ {a}]
  IN IF outcome = "throws"
       THEN [e1 EXCEPT !.jobs[a.job].status = "Failed",
                       !.isRunning = FALSE,
                       !.completedJobs = @ + 1]
       ELSE finishComplete(e1)

\* "await notificationService.sendJobCompletionNotification" returned to
\* sendBatchCompletionNotification: true and false are logged, a rejection is
\* caught and logged; completeBatchJob goes on in each case
notifyDone(e, a, outcome) ==
  LET e1 == [e EXCEPT !.loops = @ \ {a}]
  IN CASE outcome = "sent" -> finishComplete(e1)
       [] outcome = "false" -> finishComplete(e1)
       [] outcome = "throws" -> finishComplete(e1)

(* ---- the public operations of BatchService ---- *)
NewJob(n, bs, notify, fails, origin) ==
  [origin |-> origin, totalContacts |-> n, currentBatch |-> 0, totalBatches |-> CeilDiv(n, bs),
   emailsSent |-> 0, emailsFailed |-> 0, status |-> "Running",
   batchSize |-> bs, notify |-> notify, fails |-> fails,
   nextBatchTime |-> FALSE, attempts |-> [c \in 1..n |-> 0],
   sentLogs |-> 0, failedLogs |-> 0, delayInRange |-> TRUE, misrouted |-> FALSE]

startBatchJob(e, n, bs, notify, fails, origin) ==
  LET e1 == [e EXCEPT !.jobs = Append(@, NewJob(n, bs, notify, fails, origin)),
                      !.currentJob = Len(e.jobs) + 1,
                      !.isRunning = TRUE,
                      !.totalJobs = @ + 1]
  IN processNextBatch(createTransport(e1, RequestOf(origin, Len(e.jobs) + 1)))

pauseCurrentJob(e) ==
  IF e.currentJob # 0 /\ e.isRunning
    THEN clearTimer([e EXCEPT !.jobs[e.currentJob].status = "Paused",
                              !.isRunning = FALSE])
    ELSE e

resumeCurrentJob(e) ==
  IF e.currentJob # 0 /\ e.jobs[e.currentJob].status = "Paused"
    THEN processNextBatch([e EXCEPT !.jobs[e.currentJob].status = "Running",
                                    !.isRunning = TRUE])
    ELSE e

cancelCurrentJob(e) ==
  IF e.currentJob # 0
    THEN [clearTimer([e EXCEPT !.jobs[e.currentJob].status = "Failed",
                               !.isRunning = FALSE])
            EXCEPT !.completedJobs = @ + 1, !.currentJob = 0]
    ELSE e

\* contacts already handed to startBatchJob in this behaviour
RECURSIVE UsedContacts(_)
UsedContacts(js) ==
  IF js = <<>> THEN 0 ELSE Head(js).totalContacts + UsedContacts(Tail(js))

(* ---- SchedulerService and EmailService.sendBulkEmails ---- *)
\* UPDATE scheduled_jobs SET status = st WHERE id = id
setStatus(e, id, st) == [e EXCEPT !.sched[id].status = st]

\* the SELECT of checkDueJobs taking the rows left in 'running' as well
DueIds_WithRunning(rows, t) ==
  {id \in 1..Len(rows) : rows[id].status \in {"scheduled", "running"} /\ rows[id].scheduledTime <= t}

\* the rows selected by checkDueJobs: status 'scheduled' and scheduled_time <= now
DueIds(rows, t) ==
  {id \in 1..Len(rows) : rows[id].status = "scheduled" /\ rows[id].scheduledTime <= t}

\* ORDER BY scheduled_time ASC (rows of equal time in rowid order)
RECURSIVE SortDue(_, _)
SortDue(rows, ids) ==
  IF ids = {} THEN <<>>
  ELSE LET first == CHOOSE x \in ids : \A y \in ids :
                       \/ rows[x].scheduledTime < rows[y].scheduledTime
                       \/ rows[x].scheduledTime = rows[y].scheduledTime /\ x <= y
       IN <<first>> \o SortDue(rows, ids \ {first})

\* a suspended direct send: sendBulkEmails of row due[idx] (or of an immediate
\* request when due is empty), i contacts done so far
NewBulk(due, idx, n, notify, bulkId) ==
  [due |-> due, idx |-> idx, n |-> n, notify |-> notify, bulkId |-> bulkId,
   i |-> 0, sent |-> 0, failed |-> 0, pc |-> "bulk"]

\* the job a direct send works for
BulkJobOf(sw) ==
  IF sw.due = <<>> THEN <<"bulk", sw.bulkId>> ELSE <<"sched", sw.due[sw.idx]>>

\* the for loop of checkDueJobs from position idx, with executeScheduledJob
\* inlined, up to the first suspension (the await of a direct send)
RECURSIVE runDue(_, _, _)
runDue(e, due, idx) ==
  IF idx > Len(due) THEN e
  ELSE
    LET id == due[idx]
        row == e.sched[id]
        e1 == createTransport([e EXCEPT !.sched[id].status = "running",
                                        !.sched[id].startedAt = TRUE,
                                        !.execs[id] = @ + 1],
                              <<"sched", id>>)
    IN IF row.useBatch
         THEN \* startBatchJob is not awaited: a rejection is lost
           LET e2 == IF e1.isRunning THEN e1
                     ELSE startBatchJob(e1, row.n, row.batchSize, row.notify, row.fails, id)
               e3 == [e2 EXCEPT !.monitors[id] = @ + 1]
           IN runDue(e3, due, idx + 1)
         ELSE [e1 EXCEPT !.sweeps = @ \cup {NewBulk(due, idx, row.n, row.notify, 0)}]

\* notificationService.getCampaignStats(jobId): counts the log entries whose id
\* includes the row id "sched_<ts>".  The entries written by sendBulkEmails
\* have ids "email_<ts>_<i>", those of processBatch "batch_batch_<ts>_<ts>_<i>":
\* none includes a row id, so the filter selects nothing.
getCampaignStats(e, id) ==
  LET campaignLogs == {l \in {"email", "batch"} : l = "sched"}
  IN [sent |-> Cardinality(campaignLogs), failed |-> Cardinality(campaignLogs),
      total |-> Cardinality(campaignLogs)]

\* completeScheduledJobWithNotification up to its suspension; started_at and
\* completed_at are kept as set / not set
completeScheduledJobWithNotification(e, sw) ==
  LET id == sw.due[sw.idx]
      e1 == [e EXCEPT !.sched[id].status = "completed",
                      !.sched[id].completedAt = TRUE]
  IN IF e1.sched[id].notify
       THEN [sendJobCompletionNotification(e1,
               [via |-> "sched", job |-> <<"sched", id>>,
                sent |-> getCampaignStats(e1, id).sent,
                failed |-> getCampaignStats(e1, id).failed,
                total |-> getCampaignStats(e1, id).total])
               EXCEPT !.sweeps = @ \cup {[sw EXCEPT !.pc = "advNotify"]}]
       ELSE runDue(e1, sw.due, sw.idx + 1)

\* sendBulkEmails returned to its caller (sw already removed from e.sweeps)
afterBulk(e, sw) ==
  IF sw.due = <<>> THEN e
  ELSE completeScheduledJobWithNotification(e, sw)

\* one contact of sendBulkEmails: sendMail resolves (ok) or rejects, then the
\* delay, or after the last contact the completion notification
bulkSendStep(e, sw, ok) ==
  LET sw1 == [sw EXCEPT !.i = @ + 1,
                        !.sent = IF ok THEN @ + 1 ELSE @,
                        !.failed = IF ok THEN @ ELSE @ + 1]
      e1 == [e EXCEPT !.sweeps = @ \ {sw}]
  IN IF sw1.i < sw1.n
       THEN [e1 EXCEPT !.sweeps = @ \cup {sw1}]
       ELSE IF sw1.notify
         THEN [sendJobCompletionNotification(e1,
                 [via |-> "bulk", job |-> BulkJobOf(sw1),
                  sent |-> sw1.sent, failed |-> sw1.failed, total |-> sw1.n])
                 EXCEPT !.sweeps = @ \cup {[sw1 EXCEPT !.pc = "bulkNotify"]}]
         ELSE afterBulk(e1, sw1)

\* sendJobCompletionNotification returned to sendBulkCompletionNotification:
\* the result is ignored, a rejection is caught and logged; sendBulkEmails
\* returns to its caller in each case
bulkNotifyDone(e, sw, outcome) ==
  LET e1 == [e EXCEPT !.sweeps = @ \ {sw}]
  IN CASE outcome = "sent" -> afterBulk(e1, sw)
       [] outcome = "false" -> afterBulk(e1, sw)
       [] outcome = "throws" -> afterBulk(e1, sw)

\* sendJobCompletionNotification returned to sendAdvancedCompletionNotification:
\* true and false are logged, a rejection is caught and logged; the sweep
\* goes on with the next due row in each case
advNotifyDone(e, sw, outcome) ==
  LET e1 == [e EXCEPT !.sweeps = @ \ {sw}]
  IN CASE outcome = "sent" -> runDue(e1, sw.due, sw.idx + 1)
       [] outcome = "false" -> runDue(e1, sw.due, sw.idx + 1)
       [] outcome = "throws" -> runDue(e1, sw.due, sw.idx + 1)

\* the 30 s checkCompletion timer of monitorBatchJobCompletionOnly, when the
\* engine reports isRunning = false: completeScheduledJobSilently
checkCompletion(e, id) ==
  [e EXCEPT !.monitors[id] = @ - 1,
            !.sched[id].status = "completed",
            !.sched[id].completedAt = TRUE]

\* getScheduledJobs without its WHERE clause
getScheduledJobs_AllRows(e) ==
  SortDue(e.sched, 1..Len(e.sched))

\* getScheduledJobs: SELECT ... WHERE status IN ('scheduled', 'running')
\* ORDER BY scheduled_time ASC; the result as the sequence of row ids.
\* scheduled_time holds toISOString() values, whose string order is the order
\* of the instants.
getScheduledJobs(e) ==
  SortDue(e.sched, {id \in 1..Len(e.sched) : e.sched[id].status \in {"scheduled", "running"}})

\* result.changes of the UPDATE of cancelScheduledJob: the rows with this id
\* and status 'scheduled'
cancelChanges(e, id) ==
  Cardinality({r \in 1..Len(e.sched) : r = id /\ e.sched[r].status = "scheduled"})

\* cancelScheduledJob without "AND status = 'scheduled'" in its UPDATE
cancelScheduledJob_AnyStatus(e, id) ==
  IF id \in 1..Len(e.sched)
    THEN setStatus(e, id, "cancelled")
    ELSE e

\* cancelScheduledJob: UPDATE ... SET status = 'cancelled' WHERE id = ? AND status = 'scheduled'
cancelScheduledJob(e, id) ==
  IF id \in 1..Len(e.sched) /\ e.sched[id].status = "scheduled"
    THEN setStatus(e, id, "cancelled")
    ELSE e

\* the row that scheduleJob inserts (status by the column default)
NewRow(t, useBatch, n, bs, notify, fails) ==
  [status |-> "scheduled", scheduledTime |-> t,
   useBatch |-> useBatch, n |-> n, batchSize |-> bs,
   notify |-> notify, fails |-> fails,
   startedAt |-> FALSE, completedAt |-> FALSE]

\* the statement of scheduleJob as INSERT OR REPLACE
insertRow_Replace(e, key, row) ==
  IF key \in 1..Len(e.sched)
    THEN [e EXCEPT !.sched[key] = row]
    ELSE [e EXCEPT !.sched = Append(@, row),
                   !.execs = Append(@, 0),
                   !.monitors = Append(@, 0)]

\* whether the INSERT of a row with this key violates the PRIMARY KEY
insertFails(e, key) == key \in 1..Len(e.sched)

\* stmt.run of scheduleJob: INSERT INTO scheduled_jobs with id "sched_<key>".
\* A row is known by its position in sched; a key within 1..Len(sched) is the
\* id of a stored row: the statement throws and the table is untouched.
insertRow(e, key, row) ==
  IF insertFails(e, key)
    THEN e
    ELSE [e EXCEPT !.sched = Append(@, row),
                   !.execs = Append(@, 0),
                   !.monitors = Append(@, 0)]

\* scheduleJob called in a millisecond in which no row was inserted: Date.now()
\* gives a fresh id
scheduleJob(e, t, useBatch, n, bs, notify, fails) ==
  insertRow(e, Len(e.sched) + 1, NewRow(t, useBatch, n, bs, notify, fails))

\* contacts of the rows inserted in this behaviour
RECURSIVE SchedContacts(_)
SchedContacts(rows) ==
  IF rows = <<>> THEN 0 ELSE Head(rows).n + SchedContacts(Tail(rows))

\* an answer of a route: the operation, its argument and its result
Reply(op, arg, result) == [op |-> op, arg |-> arg, result |-> result]
NoReply == Reply("none", 0, FALSE)

(* ---- initial state ---- *)
Init ==
  /\ jobs = <<>>
  /\ currentJob = 0
  /\ isRunning = FALSE
  /\ timeoutId = NoTimer
  /\ totalJobs = 0
  /\ completedJobs = 0
  /\ timers = {}
  /\ evictTimers = 0
  /\ loops = {}
  /\ notifications = EmptyBag
  /\ transporter = NoTransport
  /\ lastStart = "none"
  /\ sched = <<>>
  /\ execs = <<>>
  /\ monitors = <<>>
  /\ sweeps = {}
  /\ bulkCount = 0
  /\ now = 0
  /\ reply = NoReply
  /\ notified = "none"

(* ---- actions ---- *)
\* startBatchJob without "if (this.isRunning) throw"
StartBatchJob_NoGuard ==
  /\ Len(jobs) < MaxJobs
  /\ \E n \in 1..(MaxContacts - UsedContacts(jobs)), notify \in BOOLEAN :
       \E bs \in 1..Min(MaxBatchSize, n), fails \in {f \cap (1..n) : f \in FailSets} :
         SetEng(startBatchJob(Eng, n, bs, notify, fails, 0))
  /\ lastStart' = "started"
  /\ UNCHANGED <<now, reply, notified>>

\* POST /send, immediate batch branch: startBatchJob accepted
StartBatchJob ==
  /\ ~isRunning
  /\ Len(jobs) < MaxJobs
  /\ \E n \in 1..(MaxContacts - UsedContacts(jobs)), notify \in BOOLEAN :
       \E bs \in 1..Min(MaxBatchSize, n), fails \in {f \cap (1..n) : f \in FailSets} :
         SetEng(startBatchJob(Eng, n, bs, notify, fails, 0))
  /\ lastStart' = "started"
  /\ UNCHANGED <<now, reply, notified>>

\* startBatchJob throws "A batch job is already running"
StartBatchJobRejected ==
  /\ isRunning
  /\ lastStart' = "AlreadyRunning"
  /\ UNCHANGED <<engVars, schedVars, now, reply, notified>>

PauseCurrentJob ==
  /\ currentJob # 0 /\ isRunning
  /\ SetEng(pauseCurrentJob(Eng))
  /\ UNCHANGED <<lastStart, now, reply, notified>>

ResumeCurrentJob ==
  /\ currentJob # 0 /\ jobs[currentJob].status = "Paused"
  /\ SetEng(resumeCurrentJob(Eng))
  /\ UNCHANGED <<lastStart, now, reply, notified>>

CancelCurrentJob ==
  /\ currentJob # 0
  /\ SetEng(cancelCurrentJob(Eng))
  /\ UNCHANGED <<lastStart, now, reply, notified>>

SendDone ==
  \E a \in loops :
    /\ a.pc = "send"
    /\ SetEng(sendDone(Eng, a))
    /\ UNCHANGED <<lastStart, now, reply, notified>>

DelayDone ==
  \E a \in loops :
    /\ a.pc = "delay"
    /\ SetEng(delayDone(Eng, a))
    /\ UNCHANGED <<lastStart, now, reply, notified>>

NotifyDone ==
  \E a \in loops, outcome \in NotifyOutcomes :
    /\ a.pc = "notify"
    /\ SetEng(notifyDone(Eng, a, outcome))
    /\ UNCHANGED <<lastStart, now, reply, notified>>

\* the same step, with the outcome of the call kept in notified
NotifyReturns ==
  \E a \in loops, outcome \in NotifyOutcomes :
    /\ a.pc = "notify"
    /\ SetEng(notifyDone(Eng, a, outcome))
    /\ notified' = outcome
    /\ UNCHANGED <<lastStart, now, reply>>

\* the inter-batch setTimeout callback of scheduleNextBatch
BatchTimerFires ==
  \E t \in timers :
    /\ LET e1 == [Eng EXCEPT !.timers = @ \ {t}]
       IN SetEng(IF e1.isRunning /\ e1.currentJob # 0 THEN processNextBatch(e1) ELSE e1)
    /\ UNCHANGED <<lastStart, now, reply, notified>>

\* the 30 s setTimeout callback of completeBatchJob
EvictTimerFires ==
  /\ evictTimers > 0
  /\ SetEng([Eng EXCEPT !.evictTimers = @ - 1, !.currentJob = 0])
  /\ UNCHANGED <<lastStart, now, reply, notified>>

(* ---- actions of the scheduler and of the direct send path ---- *)
\* POST /send, scheduling branch (rejects scheduledDate <= new Date())
ScheduleBatch ==
  /\ Len(sched) < MaxSched
  /\ \E t \in (now + 1)..MaxTime, notify \in BOOLEAN,
        n \in 1..Min(MaxSchedContacts, MaxSchedTotal - SchedContacts(sched)) :
       \E bs \in 1..Min(MaxBatchSize, n), fails \in {f \cap (1..n) : f \in FailSets} :
         SetEng(scheduleJob(Eng, t, TRUE, n, bs, notify, fails))
  /\ UNCHANGED <<lastStart, now, reply, notified>>

\* the scheduling branch without its "scheduledDate <= new Date()" refusal
ScheduleDirect_AnyTime ==
  /\ Len(sched) < MaxSched
  /\ \E t \in 0..MaxTime, notify \in BOOLEAN,
        n \in 1..Min(MaxBulkContacts, MaxSchedTotal - SchedContacts(sched)) :
       SetEng(scheduleJob(Eng, t, FALSE, n, 0, notify, {}))
  /\ UNCHANGED <<lastStart, now, reply, notified>>

ScheduleDirect ==
  /\ Len(sched) < MaxSched
  /\ \E t \in (now + 1)..MaxTime, notify \in BOOLEAN,
        n \in 1..Min(MaxBulkContacts, MaxSchedTotal - SchedContacts(sched)) :
       SetEng(scheduleJob(Eng, t, FALSE, n, 0, notify, {}))
  /\ UNCHANGED <<lastStart, now, reply, notified>>

\* DELETE /scheduled/:id
CancelScheduledJob ==
  /\ \E id \in 1..Len(sched) :
       /\ sched[id].status = "scheduled"
       /\ SetEng(cancelScheduledJob(Eng, id))
  /\ UNCHANGED <<lastStart, now, reply, notified>>

\* DELETE /scheduled-jobs/:id with any id (that of a row in any status, or one
\* that no row has): answers with the result of cancelScheduledJob
DeleteScheduledJob ==
  /\ \E id \in 1..(Len(sched) + 1) :
       /\ SetEng(cancelScheduledJob(Eng, id))
       /\ reply' = Reply("cancel", id, cancelChanges(Eng, id) > 0)
  /\ UNCHANGED <<lastStart, now, notified>>

\* POST /send, scheduling branch, with a scheduledTime that is refused: a time
\* not after the clock is answered 400 before scheduleJob is called; a string
\* that is no date passes the comparison (NaN <= x is false) and makes
\* scheduleJob throw in toISOString before its INSERT runs, answered 500
InvalidDate == MaxTime + 1

PostScheduleRefused ==
  /\ \E t \in (0..now) \cup {InvalidDate} :
       reply' = Reply("schedule", t, IF t = InvalidDate THEN "500" ELSE "400")
  /\ UNCHANGED <<engVars, lastStart, schedVars, now, notified>>

\* POST /send, scheduling branch, arriving in the millisecond of the latest
\* insert: Date.now() repeats, scheduleJob builds the id of the latest row;
\* what scheduleJob throws reaches the catch of the route, answered 500
PostScheduleSameMs ==
  /\ Len(sched) > 0
  /\ \E t \in (now + 1)..MaxTime, notify \in BOOLEAN, n \in 1..MaxBulkContacts :
       /\ SetEng(insertRow(Eng, Len(sched), NewRow(t, FALSE, n, 0, notify, {})))
       /\ reply' = Reply("schedule", t, IF insertFails(Eng, Len(sched)) THEN "500" ELSE "200")
  /\ UNCHANGED <<lastStart, now, notified>>

\* the setInterval callback of startScheduler (a sweep that finds no due row does nothing)
CheckDueJobs ==
  /\ DueIds(sched, now) # {}
  /\ SetEng(runDue(Eng, SortDue(sched, DueIds(sched, now)), 1))
  /\ UNCHANGED <<lastStart, now, reply, notified>>

\* POST /send, immediate direct branch
SendBulkEmails ==
  /\ bulkCount < MaxBulk
  /\ \E n \in 1..MaxBulkContacts, notify \in BOOLEAN :
       SetEng(createTransport(
                [Eng EXCEPT !.bulkCount = @ + 1,
                            !.sweeps = @ \cup {NewBulk(<<>>, 0, n, notify, bulkCount + 1)}],
                <<"bulk", bulkCount + 1>>))
  /\ UNCHANGED <<lastStart, now, reply, notified>>

BulkSendStep ==
  /\ \E sw \in sweeps, ok \in BOOLEAN :
       /\ sw.pc = "bulk"
       /\ SetEng(bulkSendStep(Eng, sw, ok))
  /\ UNCHANGED <<lastStart, now, reply, notified>>

\* the notification awaited by sendBulkEmails returned
BulkNotifyDone ==
  /\ \E sw \in sweeps, outcome \in NotifyOutcomes :
       /\ sw.pc = "bulkNotify"
       /\ SetEng(bulkNotifyDone(Eng, sw, outcome))
  /\ UNCHANGED <<lastStart, now, reply, notified>>

\* the same step, with the outcome of the call kept in notified
BulkNotifyReturns ==
  /\ \E sw \in sweeps, outcome \in NotifyOutcomes :
       /\ sw.pc = "bulkNotify"
       /\ SetEng(bulkNotifyDone(Eng, sw, outcome))
       /\ notified' = outcome
  /\ UNCHANGED <<lastStart, now, reply>>

\* the notification awaited by sendAdvancedCompletionNotification returned
AdvNotifyDone ==
  /\ \E sw \in sweeps, outcome \in NotifyOutcomes :
       /\ sw.pc = "advNotify"
       /\ SetEng(advNotifyDone(Eng, sw, outcome))
  /\ UNCHANGED <<lastStart, now, reply, notified>>

\* the same step, with the outcome of the call kept in notified
AdvNotifyReturns ==
  /\ \E sw \in sweeps, outcome \in NotifyOutcomes :
       /\ sw.pc = "advNotify"
       /\ SetEng(advNotifyDone(Eng, sw, outcome))
       /\ notified' = outcome
  /\ UNCHANGED <<lastStart, now, reply>>

\* checkCompletion: while isRunning it only re-arms itself
MonitorFires ==
  /\ ~isRunning
  /\ \E id \in 1..Len(sched) :
       /\ monitors[id] > 0
       /\ SetEng(checkCompletion(Eng, id))
  /\ UNCHANGED <<lastStart, now, reply, notified>>

Tick ==
  /\ now < MaxTime
  /\ now' = now + 1
  /\ UNCHANGED <<engVars, lastStart, schedVars, reply, notified>>

NextEngine ==
  \/ StartBatchJob
  \/ StartBatchJobRejected
  \/ PauseCurrentJob
  \/ ResumeCurrentJob
  \/ CancelCurrentJob
  \/ SendDone
  \/ DelayDone
  \/ NotifyDone
  \/ BatchTimerFires
  \/ EvictTimerFires

NextScheduler ==
  \/ ScheduleBatch
  \/ ScheduleDirect
  \/ CancelScheduledJob
  \/ CheckDueJobs
  \/ BulkSendStep
  \/ BulkNotifyDone
  \/ AdvNotifyDone
  \/ MonitorFires
  \/ Tick

\* the batch engine alone, driven by its HTTP operations
Next == NextEngine

Spec == Init /\ [][Next]_vars

\* the scheduler with the batch engine it drives; the operator may pause the
\* running job
NextSched ==
  \/ NextScheduler
  \/ PauseCurrentJob
  \/ SendDone
  \/ DelayDone
  \/ NotifyDone
  \/ BatchTimerFires
  \/ EvictTimerFires

SpecSched == Init /\ [][NextSched]_vars

\* immediate direct sends (POST /send without batch mode and without schedule)
NextBulk ==
  \/ SendBulkEmails
  \/ BulkSendStep
  \/ BulkNotifyDone

SpecBulk == Init /\ [][NextBulk]_vars

\* the scheduler under all requests of its routes, refused ones included
NextRoutes ==
  \/ DeleteScheduledJob
  \/ PostScheduleRefused
  \/ PostScheduleSameMs
  \/ ScheduleBatch
  \/ ScheduleDirect
  \/ CheckDueJobs
  \/ BulkSendStep
  \/ BulkNotifyDone
  \/ AdvNotifyDone
  \/ MonitorFires
  \/ Tick
  \/ SendDone
  \/ DelayDone
  \/ NotifyDone
  \/ BatchTimerFires
  \/ EvictTimerFires

SpecRoutes == Init /\ [][NextRoutes]_vars

\* POST /send, immediate batch branch, as the first request after start-up;
\* batchSize may exceed the number of contacts
StartSingleJob ==
  /\ jobs = <<>>
  /\ \E n \in 1..MaxRunContacts, bs \in 1..MaxRunBatchSize :
       SetEng(startBatchJob(Eng, n, bs, FALSE, {}, 0))
  /\ lastStart' = "started"
  /\ UNCHANGED <<now, reply, notified>>

\* one job run from start to eviction without any operator call
NextSingleRun ==
  \/ StartSingleJob
  \/ SendDone
  \/ DelayDone
  \/ BatchTimerFires
  \/ EvictTimerFires

SpecSingleRun == Init /\ [][NextSingleRun]_vars

\* POST /batch-cancel while the current job is Paused
CancelPausedJob ==
  /\ currentJob # 0 /\ jobs[currentJob].status = "Paused"
  /\ SetEng(cancelCurrentJob(Eng))
  /\ UNCHANGED <<lastStart, now, reply, notified>>

\* runs of the batch engine in which jobs are cancelled only while Paused
NextCancelPaused ==
  \/ StartBatchJob
  \/ PauseCurrentJob
  \/ CancelPausedJob
  \/ SendDone
  \/ DelayDone
  \/ NotifyDone
  \/ BatchTimerFires
  \/ EvictTimerFires

SpecCancelPaused == Init /\ [][NextCancelPaused]_vars

\* the scheduler and the batch engine it drives, with the outcome of every
\* completion notification observed
NextNotify ==
  \/ ScheduleBatch
  \/ ScheduleDirect
  \/ CheckDueJobs
  \/ BulkSendStep
  \/ BulkNotifyReturns
  \/ AdvNotifyReturns
  \/ MonitorFires
  \/ Tick
  \/ SendDone
  \/ DelayDone
  \/ NotifyReturns
  \/ BatchTimerFires
  \/ EvictTimerFires

SpecNotify == Init /\ [][NextNotify]_vars

\* the process ends (crash or kill) and is started again: the module-level
\* singletons are constructed anew, so every field of BatchService has its
\* initial value and every pending timer, suspended send loop, sweep and
\* checkCompletion timer is gone; the table scheduled_jobs is a file
\* (CREATE TABLE IF NOT EXISTS) and keeps its rows.  execs and notifications
\* record what was done to the outside world and are kept.
restart(e) ==
  [e EXCEPT !.jobs = <<>>, !.currentJob = 0, !.isRunning = FALSE,
            !.timeoutId = NoTimer, !.totalJobs = 0, !.completedJobs = 0,
            !.timers = {}, !.evictTimers = 0, !.loops = {},
            !.transporter = NoTransport, !.sweeps = {},
            !.monitors = [id \in 1..Len(e.monitors) |-> 0]]

Restart ==
  /\ SetEng(restart(Eng))
  /\ UNCHANGED <<lastStart, now, reply, notified>>

\* the scheduler and the engine it drives in a process that may be restarted
\* at any moment
NextRestart ==
  \/ ScheduleBatch
  \/ ScheduleDirect
  \/ CheckDueJobs
  \/ BulkSendStep
  \/ BulkNotifyDone
  \/ AdvNotifyDone
  \/ MonitorFires
  \/ Tick
  \/ SendDone
  \/ DelayDone
  \/ NotifyDone
  \/ BatchTimerFires
  \/ EvictTimerFires
  \/ Restart

\* weak fairness of CheckDueJobs, written with its enabling condition (the
\* sweep always changes execs, so it is enabled exactly when a row is due)
CheckDueJobsFair ==
  []<>(DueIds(sched, now) = {}) \/ []<><<CheckDueJobs>>_vars

\* the setInterval of startScheduler calls checkDueJobs every minute of every
\* run of the process, and time passes
SpecRestart ==
  Init /\ [][NextRestart]_vars /\ WF_vars(Tick) /\ CheckDueJobsFair

\* the batch engine on a live event loop: an armed 30 s eviction timer fires,
\* and the awaited completion notification settles (it resolves true or false,
\* or its rejection is caught)
\* POST /send, immediate batch branch, with a batchDelay of more than
\* 8.64e15 ms (the route takes any parseInt value): the job is as startBatchJob
\* makes it, its config.batchDelay out of the range of Date
StartBatchJobLongDelay ==
  /\ ~isRunning
  /\ Len(jobs) < MaxJobs
  /\ \E n \in 1..(MaxContacts - UsedContacts(jobs)), notify \in BOOLEAN :
       \E bs \in 1..Min(MaxBatchSize, n), fails \in {f \cap (1..n) : f \in FailSets} :
         SetEng([startBatchJob(Eng, n, bs, notify, fails, 0)
                   EXCEPT !.jobs[Len(jobs) + 1].delayInRange = FALSE])
  /\ lastStart' = "started"
  /\ UNCHANGED <<now, reply, notified>>

NextEvict ==
  \/ StartBatchJob
  \/ StartBatchJobLongDelay
  \/ CancelCurrentJob
  \/ SendDone
  \/ DelayDone
  \/ NotifyDone
  \/ BatchTimerFires
  \/ EvictTimerFires

SpecEvict ==
  Init /\ [][NextEvict]_vars /\ WF_vars(EvictTimerFires) /\ WF_vars(NotifyDone)

\* the batch engine without operator calls other than startBatchJob, on a live
\* event loop: every transport call and every awaited notification settles,
\* every delay and every armed timer runs out
NextLive ==
  \/ StartBatchJob
  \/ StartBatchJobRejected
  \/ SendDone
  \/ DelayDone
  \/ NotifyDone
  \/ BatchTimerFires
  \/ EvictTimerFires

SpecLive ==
  /\ Init /\ [][NextLive]_vars
  /\ WF_vars(SendDone) /\ WF_vars(DelayDone) /\ WF_vars(NotifyDone)
  /\ WF_vars(BatchTimerFires) /\ WF_vars(EvictTimerFires)

\* pauseCurrentJob immediately followed by resumeCurrentJob, nothing in between
PauseThenResume ==
  /\ currentJob # 0 /\ isRunning
  /\ SetEng(resumeCurrentJob(pauseCurrentJob(Eng)))
  /\ UNCHANGED <<lastStart, now, reply, notified>>

\* runs of the batch engine whose only operator calls are pause-resume pairs
NextPauseResume ==
  \/ StartBatchJob
  \/ PauseThenResume
  \/ SendDone
  \/ DelayDone
  \/ NotifyDone
  \/ BatchTimerFires
  \/ EvictTimerFires

SpecPauseResume == Init /\ [][NextPauseResume]_vars

(* ---- properties ---- *)
JobIds == 1..Len(jobs)
SchedIds == 1..Len(sched)

Active(j) == jobs[j].status \in {"Running", "Paused"}

\* number of sendJobCompletionNotification calls made for job x
NotifyCount(x) ==
  BagCardinality([r \in {q \in BagToSet(notifications) : q.job = x}
                    |-> CopiesIn(r, notifications)])

\* no send loop of job j is suspended in a send or a delay
NoLoopOf(j) == \A a \in loops : a.job = j => a.pc = "notify"

\* C1: a startBatchJob call is never accepted while the current job is
\* Running or Paused, so at most one BatchJob is active at any time.
C1_StartRejectedWhileActive ==
  [][Len(jobs') > Len(jobs) => ~(currentJob # 0 /\ Active(currentJob))]_vars

\* C2: sendJobCompletionNotification is never invoked twice for the same job,
\* whichever path ran it.
C2_NotifiedAtMostOnce ==
  \A r \in BagToSet(notifications) : NotifyCount(r.job) <= 1

\* C3: the status of a BatchJob changes only along Running -> Paused,
\* Paused -> Running, Running -> Completed and Running or Paused -> Failed.
BatchTransitions ==
  {<<"Running", "Paused">>, <<"Paused", "Running">>, <<"Running", "Completed">>,
   <<"Running", "Failed">>, <<"Paused", "Failed">>}

C3_BatchStatusTransitions ==
  [][\A j \in JobIds :
       jobs'[j].status # jobs[j].status =>
         <<jobs[j].status, jobs'[j].status>> \in BatchTransitions]_vars

\* C4: every ScheduledJob record is dispatched (direct send or startBatchJob
\* call) at most once.
C4_ExecutedAtMostOnce ==
  \A id \in SchedIds : execs[id] <= 1

\* C5: the status of a ScheduledJob record changes only along
\* scheduled -> running -> completed or failed, and scheduled -> cancelled.
SchedTransitions ==
  {<<"scheduled", "running">>, <<"running", "completed">>,
   <<"running", "failed">>, <<"scheduled", "cancelled">>}

C5_SchedStatusTransitions ==
  [][\A id \in SchedIds :
       sched'[id].status # sched[id].status =>
         <<sched[id].status, sched'[id].status>> \in SchedTransitions]_vars

\* C6: once a job has been cancelled (status Failed) it stays Failed and no
\* further send of one of its contacts is started.
C6_CancelIsTerminal ==
  [][\A j \in JobIds :
       jobs[j].status = "Failed" =>
         /\ jobs'[j].status = "Failed"
         /\ jobs'[j].attempts = jobs[j].attempts]_vars

\* C7: in a run whose only operator calls are pause immediately followed by
\* resume, a job that has come to rest has the counters of the uninterrupted
\* run: one outcome per contact, failures exactly at the failing contacts.
C7_PauseResumeSameResult ==
  \A j \in JobIds :
    (jobs[j].status = "Completed" /\ NoLoopOf(j)) =>
      /\ jobs[j].emailsFailed = Cardinality(jobs[j].fails)
      /\ jobs[j].emailsSent = jobs[j].totalContacts - Cardinality(jobs[j].fails)

\* C8: a job that was paused and resumed still attempts every contact exactly
\* once before it completes: in a Completed job no contact was skipped.
C8_NoContactSkipped ==
  \A j \in JobIds :
    jobs[j].status = "Completed" =>
      \A c \in 1..jobs[j].totalContacts : jobs[j].attempts[c] = 1

\* C9: whenever a BatchJob is Completed, emailsSent + emailsFailed equals
\* totalContacts, and every completion notification built for it carries
\* these final counts.
C9_CompletedAfterLastContact ==
  \A j \in JobIds :
    jobs[j].status = "Completed" =>
      /\ jobs[j].emailsSent + jobs[j].emailsFailed = jobs[j].totalContacts
      /\ \A r \in BagToSet(notifications) :
           r.job = <<"batch", j>> =>
             /\ r.sent = jobs[j].emailsSent
             /\ r.failed = jobs[j].emailsFailed

\* C10: in every reachable state of every BatchJob,
\* emailsSent + emailsFailed <= totalContacts and currentBatch <= totalBatches.
C10_CountersBounded ==
  \A j \in JobIds :
    /\ jobs[j].emailsSent + jobs[j].emailsFailed <= jobs[j].totalContacts
    /\ jobs[j].currentBatch <= jobs[j].totalBatches

\* C10 witness: a later job reached both limits with a pending continuation
\* of an earlier job still around
C10_Witness ==
  \E j \in JobIds :
    /\ j > 1
    /\ jobs[j].totalContacts >= 2
    /\ jobs[j].emailsSent + jobs[j].emailsFailed = jobs[j].totalContacts
    /\ jobs[j].currentBatch = jobs[j].totalBatches
    /\ jobs[j].totalBatches >= 2

\* the activations of job j that are inside processBatch (a send in flight or
\* an inter-email delay pending): batches of j that have begun and not ended
OpenBatches(j) == {a \in loops : a.job = j /\ a.pc \in {"send", "delay"}}

\* C11: within one BatchJob the sends follow the contact list and the batches
\* follow their index: a send for a contact is started only after the sends
\* for all earlier contacts, and at most one batch of a job is in progress at
\* any time, also when pause and resume are called during a send or a delay.
C11_SendsInOrder ==
  \A j \in JobIds :
    /\ Cardinality(OpenBatches(j)) <= 1
    /\ \A c \in 2..jobs[j].totalContacts :
         jobs[j].attempts[c] > 0 => jobs[j].attempts[c - 1] > 0

\* a step that consumes an inter-batch timer while the engine is not running
\* or has no current job
SpuriousWake ==
  /\ timers' # timers
  /\ timers' \subseteq timers
  /\ ~isRunning \/ currentJob = 0

\* C12: no contact of a job receives more than one send attempt (so no batch
\* is executed twice), whatever the interleaving of pause, resume, cancel and
\* timer firings; a timer firing while the engine is not running starts no send.
C12_NoDoubleExecution ==
  [][/\ \A j \in 1..Len(jobs') :
          \A c \in 1..jobs'[j].totalContacts : jobs'[j].attempts[c] <= 1
     /\ SpuriousWake => \A j \in JobIds : jobs'[j].attempts = jobs[j].attempts]_vars

\* C12 witness: every contact of a three-batch job got its one attempt, and an
\* inter-batch timer is still pending although the engine has stopped
C12_Witness ==
  /\ ~isRunning
  /\ timers # {}
  /\ \E j \in JobIds :
       /\ jobs[j].totalBatches >= 3
       /\ \A c \in 1..jobs[j].totalContacts : jobs[j].attempts[c] = 1

FailingSends(j) ==
  {a \in loops : a.job = j /\ a.pc = "send"
                 /\ ContactOf(jobs[j], a.batch, a.i) \in jobs[j].fails}

\* C14: a failed send for one recipient does not abort the batch or the job.
\* The step in which the rejected send returns to the loop adds one to emailsFailed and one Failed
\* log entry, leaves emailsSent alone and does not turn the job Failed; if the
\* batch has further contacts and the engine is running, the loop goes on to
\* the delay before the next contact; if the failure was the job's last
\* outstanding contact and the engine is running this job, the job becomes
\* Completed.
C14_FailedSendDoesNotAbort ==
  [][\A j \in JobIds : \A a \in FailingSends(j) :
       a \notin loops' =>
         /\ jobs'[j].emailsFailed = jobs[j].emailsFailed + 1
         /\ jobs'[j].failedLogs = jobs[j].failedLogs + 1
         /\ jobs'[j].emailsSent = jobs[j].emailsSent
         /\ jobs'[j].status = "Failed" => jobs[j].status = "Failed"
         /\ (a.i < a.len - 1 /\ isRunning) =>
               [a EXCEPT !.pc = "delay"] \in loops'
         /\ ( /\ jobs'[j].emailsSent + jobs'[j].emailsFailed = jobs[j].totalContacts
              /\ currentJob = j /\ isRunning ) =>
                jobs'[j].status = "Completed"]_vars

\* C14 witness: a three-contact job whose second contact failed is Completed
\* with the other two contacts sent and one Failed log entry
C14_Witness ==
  \E j \in JobIds :
    /\ jobs[j].status = "Completed"
    /\ jobs[j].fails = {2}
    /\ jobs[j].totalContacts = 3
    /\ jobs[j].emailsFailed = 1
    /\ jobs[j].failedLogs = 1
    /\ jobs[j].emailsSent = 2
    /\ \A c \in 1..3 : jobs[j].attempts[c] = 1

\* the transport configured for job j cannot deliver: every send rejects
TransportDown(j) == jobs[j].fails = 1..jobs[j].totalContacts

\* C15: an error of the transport as a whole (misconfiguration) aborts the job
\* into Failed and is not counted per email: a job of two or more contacts
\* whose transport cannot deliver never counts a failed email and never
\* becomes Completed.
C15_TransportErrorAbortsJob ==
  \A j \in JobIds :
    (TransportDown(j) /\ jobs[j].totalContacts >= 2) =>
      /\ jobs[j].emailsFailed = 0
      /\ jobs[j].status # "Completed"

\* C16: cancelScheduledJob answers true and sets the record Cancelled exactly
\* when the record exists with status scheduled; otherwise it answers false
\* and leaves every record as it is.  No record becomes Cancelled in any
\* other way.
C16_CancelOnlyScheduled ==
  [][/\ (reply' # reply /\ reply'.op = "cancel") =>
          LET id == reply'.arg
          IN IF id \in SchedIds /\ sched[id].status = "scheduled"
               THEN /\ reply'.result = TRUE
                    /\ sched' = [sched EXCEPT ![id].status = "cancelled"]
               ELSE /\ reply'.result = FALSE
                    /\ sched' = sched
     /\ \A id \in SchedIds :
          (sched'[id].status = "cancelled" /\ sched[id].status # "cancelled") =>
             sched[id].status = "scheduled"]_vars

\* C16 witness: a cancel of a record that a sweep had already taken was
\* answered false, while another record was cancelled earlier
C16_Witness ==
  /\ reply.op = "cancel"
  /\ reply.result = FALSE
  /\ reply.arg \in SchedIds
  /\ sched[reply.arg].status \in {"running", "completed"}
  /\ \E id \in SchedIds : sched[id].status = "cancelled"

\* C17: a schedule request whose time is not strictly in the future is
\* refused and creates no record: the table is the same before and after the
\* refused request, and every record that is inserted has a time after the
\* clock of its insertion.
C17_PastScheduleRefused ==
  [][/\ (reply' # reply /\ reply'.op = "schedule") =>
          /\ reply'.result \in {"400", "500"}
          /\ sched' = sched
     /\ Len(sched') > Len(sched) =>
          /\ Len(sched') = Len(sched) + 1
          /\ sched'[Len(sched')].scheduledTime > now
          /\ sched'[Len(sched')].status = "scheduled"]_vars

\* C17 witness: a request for a time the clock has reached was refused while
\* the table holds a record
C17_Witness ==
  /\ reply.op = "schedule"
  /\ reply.result = "400"
  /\ reply.arg = now
  /\ now > 0
  /\ Len(sched) >= 1

\* the BatchJobs that startBatchJob created for ScheduledJob record id
JobsOf(id) == {j \in JobIds : jobs[j].origin = id}

\* C18: a due job whose dispatch raised an exception is marked failed: a batch
\* record that was dispatched more often than the engine accepted a job for it
\* (so a startBatchJob call for it was rejected as already running) has
\* status failed.
C18_RejectedDispatchMarkedFailed ==
  \A id \in SchedIds :
    (sched[id].useBatch /\ execs[id] > Cardinality(JobsOf(id))) =>
      sched[id].status = "failed"

\* C19: a batch ScheduledJob record is marked completed only when the
\* BatchJob started for it has reached a terminal status: in the step that
\* marks it, a job started for the record exists and every such job is
\* Completed or Failed (not Paused or Running).
C19_CompletedAfterOwnBatchJob ==
  [][\A id \in SchedIds :
       ( /\ sched[id].useBatch
         /\ sched'[id].status = "completed"
         /\ sched[id].status # "completed" ) =>
           /\ JobsOf(id) # {}
           /\ \A j \in JobsOf(id) : jobs[j].status \in {"Completed", "Failed"}]_vars

\* C20: a due ScheduledJob record without batch mode whose send had s
\* successes and f failures over n contacts ends completed, and every
\* completion notification sent for it reports sent = s, failed = f,
\* total = n.  Checked where the sweep has marked the record and still holds
\* the counts of its send.
C20_DirectJobStats ==
  \A sw \in sweeps :
    (sw.due # <<>> /\ sw.pc = "advNotify") =>
      /\ sched[sw.due[sw.idx]].status = "completed"
      /\ \A r \in BagToSet(notifications) :
           r.job = BulkJobOf(sw) =>
             /\ r.sent = sw.sent
             /\ r.failed = sw.failed
             /\ r.total = sw.n

\* C21: startBatchJob partitions the contacts into ceil(n / batchSize)
\* contiguous batches in list order: totalBatches is the least k with
\* k * batchSize >= n, every batch but the last has batchSize contacts and the
\* last has the rest, the contacts are attempted in list order, none twice,
\* and a Completed job has attempted every contact exactly once.
C21_Partition ==
  \A j \in JobIds :
    LET n == jobs[j].totalContacts
        bs == jobs[j].batchSize
        tb == jobs[j].totalBatches
    IN /\ (tb - 1) * bs < n /\ n <= tb * bs
       /\ \A a \in OpenBatches(j) :
            /\ a.batch \in 1..tb
            /\ a.batch < tb => a.len = bs
            /\ a.batch = tb => a.len = n - (tb - 1) * bs
       /\ \A c \in 1..n : jobs[j].attempts[c] <= 1
       /\ \A c \in 2..n : jobs[j].attempts[c] = 1 => jobs[j].attempts[c - 1] = 1
       /\ jobs[j].status = "Completed" => \A c \in 1..n : jobs[j].attempts[c] = 1

\* C21 witness: 45 contacts with batchSize 20 run as 3 batches, the third
\* of 5 contacts, here with its last contact in flight
C21_Witness ==
  \E j \in JobIds :
    /\ jobs[j].totalContacts = 45
    /\ jobs[j].batchSize = 20
    /\ jobs[j].totalBatches = 3
    /\ \E a \in OpenBatches(j) : a.batch = 3 /\ a.len = 5 /\ a.i = 4 /\ a.pc = "send"
    /\ jobs[j].emailsSent = 44

\* C22: pauseCurrentJob acts only on a Running job: the step that makes a job
\* Paused finds it Running, stops the engine and cancels the pending
\* inter-batch timer; and while a job stays Paused no batch of it is taken and
\* no send for one of its contacts is started.
C22_PauseStopsSending ==
  [][\A j \in JobIds :
       /\ (jobs'[j].status = "Paused" /\ jobs[j].status # "Paused") =>
            /\ jobs[j].status = "Running"
            /\ ~isRunning'
            /\ timeoutId' = NoTimer
            /\ timeoutId \notin timers'
       /\ (jobs[j].status = "Paused" /\ jobs'[j].status = "Paused") =>
            /\ jobs'[j].attempts = jobs[j].attempts
            /\ jobs'[j].currentBatch = jobs[j].currentBatch]_vars

\* C23: cancelling a Paused job moves it to Failed in that step, and from
\* then on the job is never Running again and no send for one of its
\* remaining contacts is started.  (In these runs every Failed job was
\* cancelled while Paused.)
C23_CancelPausedIsFinal ==
  [][\A j \in JobIds :
       /\ (jobs'[j].status = "Failed" /\ jobs[j].status # "Failed") =>
            jobs[j].status = "Paused"
       /\ jobs[j].status = "Failed" =>
            /\ jobs'[j].status # "Running"
            /\ \A c \in 1..jobs[j].totalContacts :
                 jobs'[j].attempts[c] = jobs[j].attempts[c]]_vars

\* C24: getScheduledJobs returns exactly the records whose status is
\* scheduled or running, each once, in ascending scheduledTime order;
\* completed, failed and cancelled records are not in it.
C24_GetScheduledJobs ==
  LET r == getScheduledJobs(Eng)
  IN /\ \A id \in SchedIds :
          (\E k \in 1..Len(r) : r[k] = id) <=> sched[id].status \in {"scheduled", "running"}
     /\ \A k \in 1..Len(r) : r[k] \in SchedIds
     /\ \A k, l \in 1..Len(r) : k < l =>
          /\ r[k] # r[l]
          /\ sched[r[k]].scheduledTime <= sched[r[l]].scheduledTime

\* C24 witness: the record inserted second is due first and comes first in
\* the list, one of the two being already taken by a sweep
C24_Witness ==
  /\ Len(sched) = 2
  /\ sched[1].scheduledTime > sched[2].scheduledTime
  /\ sched[2].status = "running"
  /\ sched[1].status = "scheduled"
  /\ getScheduledJobs(Eng) = <<2, 1>>

\* a step in which a sendJobCompletionNotification call returns to the
\* batch engine or to the scheduler
BatchNotifyReturned == \E a \in loops : a.pc = "notify" /\ a \notin loops'
SchedNotifyReturned(pc) == \E sw \in sweeps : sw.due # <<>> /\ sw.pc = pc /\ sw \notin sweeps'

\* C25: a completion notification that returns false or throws changes no job
\* status and is not retried: in the step in which it returns, every
\* Completed BatchJob stays Completed, the ScheduledJob record it was sent for
\* stays completed (or, for the notification of the direct send itself,
\* becomes completed as after a success), and no further notification is sent
\* in its place.
C25_NotificationFailureHarmless ==
  [][notified' \in {"false", "throws"} =>
       /\ (BatchNotifyReturned \/ SchedNotifyReturned("bulkNotify")
             \/ SchedNotifyReturned("advNotify")) =>
            \A j \in JobIds :
              jobs[j].status = "Completed" => jobs'[j].status = "Completed"
       /\ \A sw \in sweeps :
            (sw.due # <<>> /\ sw.pc = "advNotify" /\ sw \notin sweeps') =>
               /\ sched'[sw.due[sw.idx]].status = sched[sw.due[sw.idx]].status
               /\ notifications' = notifications
       /\ \A sw \in sweeps :
            (sw.due # <<>> /\ sw.pc = "bulkNotify" /\ sw \notin sweeps') =>
               sched'[sw.due[sw.idx]].status = "completed"
       /\ BatchNotifyReturned => notifications' = notifications]_vars

\* C25 witness: the latest notification threw; a BatchJob with notification
\* is Completed and past its notification, and a direct ScheduledJob record
\* with notification is completed
C25_Witness ==
  /\ notified = "throws"
  /\ \E j \in JobIds :
       jobs[j].status = "Completed" /\ jobs[j].notify /\ NoLoopOf(j)
  /\ \E id \in SchedIds :
       sched[id].status = "completed" /\ sched[id].notify /\ ~sched[id].useBatch
  /\ sweeps = {}

\* what scheduleJob stored in a row (the columns no later UPDATE writes)
Stored(row) ==
  [row EXCEPT !.status = "scheduled", !.startedAt = FALSE, !.completedAt = FALSE]

\* C26: a failing insert loses and overwrites nothing and is reported: no
\* record ever disappears, what was stored in a record never changes, and a
\* schedule request arriving in the millisecond of the latest insert (same
\* sched_<timestamp> id) is answered with the error, the table being the same
\* before and after.
C26_InsertFailurePropagates ==
  [][/\ Len(sched') >= Len(sched)
     /\ \A id \in SchedIds : Stored(sched'[id]) = Stored(sched[id])
     /\ (reply' # reply /\ reply'.op = "schedule" /\ reply'.arg \in (now + 1)..MaxTime) =>
          /\ reply'.result = "500"
          /\ sched' = sched]_vars

\* C26 witness: a request for a time in the future was answered 500 while the
\* table holds the record whose id it repeated
C26_Witness ==
  /\ reply.op = "schedule"
  /\ reply.result = "500"
  /\ reply.arg \in (now + 1)..MaxTime
  /\ Len(sched) >= 1
  /\ sched[Len(sched)].status = "scheduled"

\* C27: a sweep dispatches only records that are scheduled and due, in
\* ascending scheduledTime order, and marks a record running with startedAt
\* set in the step that dispatches it, before any of its emails is sent; a
\* record whose scheduledTime is in the future is never marked running.
C27_SweepTakesOnlyDueScheduled ==
  [][/\ \A id \in SchedIds :
          execs'[id] > execs[id] =>
            /\ sched[id].status = "scheduled"
            /\ sched[id].scheduledTime <= now
            /\ sched'[id].startedAt
     /\ \A id \in SchedIds :
          (sched'[id].status = "running" /\ sched[id].status # "running") =>
             /\ sched[id].scheduledTime <= now
             /\ execs'[id] > execs[id]
     /\ LET due == SortDue(sched, DueIds(sched, now))
        IN \A k, l \in 1..Len(due) :
             k < l => sched[due[k]].scheduledTime <= sched[due[l]].scheduledTime]_vars

\* C28: between two consecutive batches of a job the inter-batch delay is
\* observed: arming the timer sets nextBatchTime, and a batch after the first
\* is taken only in the step in which the timer armed after the previous
\* batch fires, also when the job was paused and resumed during the wait.
C28_InterBatchDelayObserved ==
  [][/\ \A t \in timers' \ timers : jobs'[t[1]].nextBatchTime
     /\ \A j \in JobIds :
          (jobs'[j].currentBatch > jobs[j].currentBatch /\ jobs[j].currentBatch >= 1) =>
             /\ <<j, jobs[j].currentBatch>> \in timers
             /\ <<j, jobs[j].currentBatch>> \notin timers']_vars

\* C29: emailsSent, emailsFailed and currentBatch of a job never decrease
\* (while it is Running or in any other status), and the step in which a send
\* returns changes exactly one of the two counters of its job, by one.
C29_CountersMonotone ==
  [][\A j \in JobIds :
       /\ jobs'[j].emailsSent >= jobs[j].emailsSent
       /\ jobs'[j].emailsFailed >= jobs[j].emailsFailed
       /\ jobs'[j].currentBatch >= jobs[j].currentBatch
       /\ (\E a \in loops : a.job = j /\ a.pc = "send" /\ a \notin loops') =>
            \/ /\ jobs'[j].emailsSent = jobs[j].emailsSent + 1
               /\ jobs'[j].emailsFailed = jobs[j].emailsFailed
            \/ /\ jobs'[j].emailsSent = jobs[j].emailsSent
               /\ jobs'[j].emailsFailed = jobs[j].emailsFailed + 1
       /\ ~(\E a \in loops : a.job = j /\ a.pc = "send" /\ a \notin loops') =>
            /\ jobs'[j].emailsSent = jobs[j].emailsSent
            /\ jobs'[j].emailsFailed = jobs[j].emailsFailed]_vars

\* C29 witness: a Running job in its second batch has counted a delivered and
\* a failed email
C29_Witness ==
  \E j \in JobIds :
    /\ jobs[j].status = "Running"
    /\ jobs[j].emailsSent >= 1
    /\ jobs[j].emailsFailed >= 1
    /\ jobs[j].currentBatch >= 2

\* C30: every batch job that has reached Completed or Failed (by completion,
\* by cancel or through the catch of processNextBatch) eventually stops being
\* the job getBatchStatus().currentJob reports.
C30_EventuallyEvicted ==
  \A j \in 1..MaxJobs :
    (j \in JobIds /\ jobs[j].status \in {"Completed", "Failed"}) ~> (currentJob # j)

\* a record left in 'running' by a process that ended: no checkCompletion
\* timer and no sweep of the present process holds it
Orphaned(id) ==
  /\ sched[id].status = "running"
  /\ monitors[id] = 0
  /\ \A sw \in sweeps : \A k \in 1..Len(sw.due) : sw.due[k] # id

\* C31: ScheduledJob records survive a restart and BatchJob state does not: a
\* record that is still scheduled is eventually dispatched by a sweep, across
\* restarts; a record left in running by a process that ended is dispatched by
\* no sweep again and keeps status running; a restart leaves the table as it
\* is and the engine without any job.
C31_RestartKeepsRecords ==
  /\ \A id \in 1..MaxSched :
       (id \in SchedIds /\ sched[id].status = "scheduled") ~>
          (id \in SchedIds /\ execs[id] > 0)
  /\ [][\A id \in SchedIds :
          Orphaned(id) => /\ sched'[id] = sched[id]
                          /\ execs'[id] = execs[id]
                          /\ Orphaned(id)']_vars
  /\ [][(loops # {} /\ loops' = {} /\ sweeps # {} /\ sweeps' = {}) =>
          /\ sched' = sched
          /\ jobs' = <<>> /\ currentJob' = 0 /\ ~isRunning']_vars

\* C31 witness: after a restart that left record 1 in running, time went on and
\* a sweep of the new process dispatched the other record, which was still
\* scheduled at the restart
C31_Witness ==
  /\ Len(sched) = 2
  /\ Orphaned(1)
  /\ sched[2].status = "running"
  /\ ~Orphaned(2)
  /\ execs[1] = 1 /\ execs[2] = 1

\* C32: a ScheduledJob record that cancelScheduledJob has cancelled (the only
\* way to status cancelled, and the call then returns true) is never
\* dispatched: no sweep starts its direct send or its batch job, and no send
\* or batch job of it exists.
C32_CancelledNeverDispatched ==
  [][\A id \in SchedIds :
       sched[id].status = "cancelled" =>
         /\ execs'[id] = execs[id]
         /\ execs[id] = 0
         /\ JobsOf(id) = {}
         /\ \A sw \in sweeps' : sw.pc = "bulk" => BulkJobOf(sw) # <<"sched", id>>]_vars

\* C33: continuations of an earlier batch job never act on a later one: once a
\* later job is the current one, no send of the earlier job is started, the
\* eviction timer drops only a job that is Completed, and a step of a suspended
\* activation of another job leaves the current job and the timers untouched.
C33_NoStaleContinuation ==
  [][/\ \A j \in JobIds :
          currentJob > j => jobs'[j].attempts = jobs[j].attempts
     /\ (evictTimers' < evictTimers /\ currentJob # 0) =>
          jobs[currentJob].status = "Completed"
     /\ \A a \in loops \ loops' :
          (currentJob # 0 /\ a.job # currentJob) =>
             /\ currentJob' = currentJob
             /\ jobs'[currentJob] = jobs[currentJob]
             /\ timers' \subseteq timers]_vars

\* C34: isRunning and the current job always agree: isRunning is true exactly
\* when currentJob is non-null and its status is Running.
C34_RunningFlagAgrees ==
  isRunning <=> (currentJob # 0 /\ jobs[currentJob].status = "Running")

\* C35: the engine never locks up: every started batch job (none is ever
\* paused here) eventually is Completed or Failed with isRunning false, so
\* that a new startBatchJob is accepted.
C35_NoLockUp ==
  \A j \in 1..MaxJobs :
    (j \in JobIds /\ jobs[j].status = "Running") ~>
       (j \in JobIds /\ jobs[j].status \in {"Completed", "Failed"} /\ ~isRunning)

\* C36: every email of a batch job is handed to the transport built from the
\* config of the job's own request; configuring the shared transporter for
\* another request does not change the transport of a job in progress.
C36_OwnTransport ==
  \A j \in JobIds : ~jobs[j].misrouted

\* C37: completedJobs never exceeds totalJobs (each started job adds at most
\* one to completedJobs).
C37_CountersConsistent ==
  completedJobs <= totalJobs

TypeOK ==
  /\ currentJob \in 0..Len(jobs)
  /\ isRunning \in BOOLEAN
  /\ Len(sched) <= MaxSched

====
